---- MODULE Spec2Model ----
(***************************************************************************)
(* The global logger of package log (KennyMacCormik/common): the shared    *)
(* cells logLevel, output, handler, mtx and globalLogger, the              *)
(* configuration options WithJSONFormat, WithTextFormat, WithOutput and    *)
(* WithLogLevel, Configure, and the emit functions Debug/Info/Warn/Error.  *)
(* Every access to a shared cell is one step of the calling goroutine.     *)
(***************************************************************************)
EXTENDS Integers, Sequences, FiniteSets, TLC

\* ------------------------------------------------------------------ bounds

\* Option applications and emit calls made in one behaviour, all goroutines together.
MaxCalls == 3

\* Longest argument list handed to Configure.
MaxCfgLen == 3

\* Longest attribute argument list handed to an emit call.
MaxArgs == 3

\* Longest byte array a converted string or slice lies in.
MaxLen == 2

\* ------------------------------------------------------- program constants

\* slog.LevelDebug, slog.LevelInfo, slog.LevelWarn, slog.LevelError.
LevelDebug == -4

LevelInfo == 0

LevelWarn == 4

LevelError == 8

Levels == {LevelDebug, LevelInfo, LevelWarn, LevelError}

\* handler: 0 = JSON, 1 = Text.
JSONFormat == 0

TextFormat == 1

\* ---------------------------------------------------------------- writers

\* An io.Writer value is an interface pair: the dynamic type (with its
\* reflect kind) and the data word.
NilWriter == [kind |-> "none", data |-> "nil"]

\* (*os.File)(nil): a typed nil pointer.
NilFilePtr == [kind |-> "ptr", data |-> "nil"]

\* The nil value of a writer type of func kind (map, chan and slice kinds
\* are alike): type W func([]byte) (int, error); W(nil).
NilFuncWriter == [kind |-> "func", data |-> "nil"]

\* os.Stdout and two other open *os.File.
Stdout == [kind |-> "ptr", data |-> "stdout"]

D1 == [kind |-> "ptr", data |-> "d1"]

D2 == [kind |-> "ptr", data |-> "d2"]

\* The writers a record can be written to.
OpenWriters == {Stdout, D1, D2}

\* The arguments WithOutput is called with.
WriterArgs == {NilWriter, NilFilePtr, NilFuncWriter, Stdout, D1, D2}

\* The arguments WithLogLevel is called with.
LevelNames == {"debug", "info", "warn", "error", "", "DEBUG", "trace"}

Msgs == {"m"}

Threads == {"t1", "t2"}

\* ---------------------------------------------------------------- loggers

\* A *slog.Logger: the handler's format, writer and Leveler. The Leveler
\* is either the LevelVar logLevel itself (ref) or a slog.Level value.
LevelRef == [ref |-> TRUE, val |-> 0]

LevelVal(l) == [ref |-> FALSE, val |-> l]

Logger(h, w, lv) == [built |-> TRUE, h |-> h, w |-> w, level |-> lv]

\* A logger pointer read without synchronisation before the stores that
\* build the Logger are visible: its handler field still reads nil.
Unbuilt == [built |-> FALSE, h |-> JSONFormat, w |-> NilWriter, level |-> LevelRef]

NoLogger == [built |-> FALSE, h |-> TextFormat, w |-> NilWriter, level |-> LevelRef]

\* What a logger is bound to: its format, its writer and the threshold it
\* filters with.
Bound(h, w, thr) == [h |-> h, w |-> w, thr |-> thr]

NoCopy == Bound(JSONFormat, NilWriter, 0)

\* ----------------------------------------------------------------- options

Option(op, w, s, n) == [op |-> op, w |-> w, s |-> s, n |-> n]

NoOption == Option("none", NilWriter, "", 0)

OptJSON == Option("json", NilWriter, "", 0)

OptText == Option("text", NilWriter, "", 0)

OptOut(w) == Option("out", w, "", 0)

OptLvl(s) == Option("lvl", NilWriter, s, 0)

FormatOpts == {OptJSON, OptText}

ConfigOpts ==
    FormatOpts \cup {OptOut(w) : w \in WriterArgs} \cup {OptLvl(s) : s \in LevelNames}

\* The options the goroutines of the concurrent specifications call with.
ConcOpts == FormatOpts \cup {OptOut(D1), OptOut(NilFuncWriter), OptLvl("info")}

VARIABLES
    logLevel,       \* *slog.LevelVar: the level it holds
    output,         \* io.Writer
    handler,        \* atomic.Int64
    mtx,            \* sync.Mutex: TRUE when locked
    globalLogger,   \* *slog.Logger
    sink,           \* the records written to each open writer
    crashed,        \* the process died of a panic or a fatal runtime error
    pc,             \* each goroutine's position
    cur,            \* the option or emit call a goroutine is executing
    queue,          \* Configure: the options still to apply
    out,            \* storeLogger's parameter out
    lv,             \* storeLogger's parameter level
    wr,             \* WithOutput: the value about to be stored in output
    nl,             \* storeLogger: the logger built, about to be stored
    sDefer,         \* storeLogger registered its deferred mtx.Unlock
    lg,             \* the logger an emit call read from globalLogger
    calls,          \* option applications and emit calls made so far
    validOut,       \* history: the writer of the last returned WithOutput, "none" once a later one is called
    eOut,           \* history: validOut when an emit call read globalLogger
    given,          \* history: the calls made so far, each the list of its options
    copy,           \* the logger the last CopyLogger() returned
    copyAt,         \* history: what that logger was bound to when it was returned
    argv,           \* the args ...any of an emit call
    rest,           \* the arguments not yet turned into attributes
    attrs,          \* the attributes of the record so far
    middleware,     \* GinFactory.middleware
    handlers,       \* GinFactory.handlers
    router,         \* the *gin.Engine the last CreateRouter returned
    ghist,          \* history: the calls made on the factory, with their arguments
    mem,            \* memory: the byte array at each address
    src,            \* the string or byte slice handed to the first conversion
    first,          \* what StrToBytes(src) or BytesToStr(src) returned
    second,         \* what the other conversion returned for first
    orig            \* history: the bytes of src when it was converted

vars ==
    <<logLevel, output, handler, mtx, globalLogger, sink, crashed, pc, cur, queue,
      out, lv, wr, nl, sDefer, lg, calls, validOut, eOut, given, copy, copyAt,
      argv, rest, attrs, middleware, handlers, router, ghist,
      mem, src, first, second, orig>>

shared == <<logLevel, output, handler, mtx, globalLogger, sink, crashed>>

locals == <<out, lv, wr, nl, sDefer, lg>>

\* What no step of an option or of a global emit call touches.
gin == <<middleware, handlers, router, ghist>>

conv == <<mem, src, first, second, orig>>

aside == <<copy, copyAt, argv, rest, attrs, gin, conv>>

\* InitLevel as slog.LevelDebug.
InitLevelDebug == LevelDebug

\* init: logLevel.Set(slog.LevelWarn).
InitLevel == LevelWarn

\* init ends with globalLogger.Debug("logger init success", ...): what the
\* logger l, filtering with the level gate, has then written to writer d.
InitRecords(l, gate, d) ==
    IF d = l.w.data /\ LevelDebug >= gate
    THEN <<[h |-> l.h, level |-> LevelDebug, msg |-> "logger init success"]>>
    ELSE <<>>

InitLog ==
    /\ logLevel = InitLevel
    /\ output = Stdout
    /\ handler = JSONFormat
    /\ mtx = FALSE
    /\ globalLogger = Logger(JSONFormat, Stdout, LevelRef)
    /\ sink = [d \in {w.data : w \in OpenWriters} |-> InitRecords(globalLogger, logLevel, d)]
    /\ crashed = FALSE
    /\ pc = [t \in Threads |-> "idle"]
    /\ cur = [t \in Threads |-> NoOption]
    /\ queue = [t \in Threads |-> <<>>]
    /\ out = [t \in Threads |-> NilWriter]
    /\ lv = [t \in Threads |-> 0]
    /\ wr = [t \in Threads |-> NilWriter]
    /\ nl = [t \in Threads |-> NoLogger]
    /\ sDefer = [t \in Threads |-> FALSE]
    /\ lg = [t \in Threads |-> NoLogger]
    /\ calls = 0
    /\ validOut = "none"
    /\ eOut = [t \in Threads |-> "none"]
    /\ given = <<>>
    /\ copy = NoLogger
    /\ copyAt = NoCopy

\* gin.Recovery().
Recovery == "recovery"

\* A router: the middleware it applies, in order, and the registration
\* functions that have run on it, in order.
Router(ms, hs) == [made |-> TRUE, mw |-> ms, ran |-> hs]

NoRouter == [made |-> FALSE, mw |-> <<>>, ran |-> <<>>]

\* gf := NewGinFactory().
NewGinFactory ==
    /\ middleware = <<Recovery>>
    /\ handlers = <<>>
    /\ router = NoRouter
    /\ ghist = <<>>

\* A string or a byte slice is a header: the address of an array, the
\* offset of its first byte in it and its length. A string and a slice
\* differ in their type only (kind).
Header(kind, base, off, len) ==
    [made |-> TRUE, kind |-> kind, base |-> base, off |-> off, len |-> len]

NoData == [made |-> FALSE, kind |-> "none", base |-> 0, off |-> 0, len |-> 0]

\* The byte values, and the addresses of the caller's array and of the
\* array a copying conversion allocates.
Bytes == {"m", "M"}

Addrs == {"a", "new"}

\* No conversion is under way.
NoConv ==
    /\ mem = [a \in Addrs |-> <<>>]
    /\ src = NoData
    /\ first = NoData
    /\ second = NoData
    /\ orig = <<>>

\* The state when init has returned; no emit call is building a record.
Init ==
    /\ InitLog
    /\ NewGinFactory
    /\ NoConv
    /\ argv = <<>>
    /\ rest = <<>>
    /\ attrs = <<>>

\* ------------------------------------------------------------ pure helpers

\* isNotNilOrNilPointer: false for the nil interface, and for a nil value
\* whose reflect kind is Ptr or Interface; true for everything else.
isNotNilOrNilPointer(w) ==
    IF w = NilWriter
    THEN FALSE
    ELSE IF w.kind \in {"ptr", "interface"} /\ w.data = "nil"
         THEN FALSE
         ELSE TRUE

\* WithOutput's choice of the value stored in output.
OutputFor(w) == IF isNotNilOrNilPointer(w) THEN w ELSE Stdout

\* WithLogLevel: logLevelMap, and the defaulting of an unknown name.
logLevelMap(name) ==
    CASE name = "debug" -> LevelDebug
      [] name = "info" -> LevelInfo
      [] name = "warn" -> LevelWarn
      [] name = "error" -> LevelError

\* LevelName with another default: an unknown name becomes "info".
LevelNameInfo(level) ==
    IF level # "debug" /\ level # "info" /\ level # "warn" /\ level # "error"
    THEN "info"
    ELSE level

LevelName(level) ==
    IF level # "debug" /\ level # "info" /\ level # "warn" /\ level # "error"
    THEN "warn"
    ELSE level

LevelFor(level) == logLevelMap(LevelName(level))

\* FormatOf with both options storing 0.
FormatOfJSON(o) == JSONFormat

\* handler.Store(0) in WithJSONFormat, handler.Store(1) in WithTextFormat.
FormatOf(o) == IF o.op = "json" THEN JSONFormat ELSE TextFormat

\* The threshold a logger filters with: its Leveler read when a record is
\* handled, the LevelVar's current level or the captured slog.Level.
Threshold(l) == IF l.level.ref THEN logLevel ELSE l.level.val

\* Enabled letting through only the levels above the threshold.
EnabledAbove(l, level) == level > Threshold(l)

\* Handler.Enabled as the emit functions use it.
Enabled(l, level) == level >= Threshold(l)

\* storeLogger's two branches: the JSON handler is bound to the parameter
\* out, the text handler to the package variable output.
NewJSON(o, level) == Logger(JSONFormat, o, LevelVal(level))

\* NewText bound to os.Stdout whatever output holds.
NewTextOnStdout(o, level) == Logger(TextFormat, Stdout, LevelVal(level))

NewText(o, level) == Logger(TextFormat, o, LevelVal(level))

\* ------------------------------------------------ unsynchronised accesses

\* output is a two-word interface value that WithOutput stores under mtx
\* and the format options read without it. A read made while another
\* goroutine is at its store sees the old pair, the new pair, or one word
\* of each.
Torn(old, new) ==
    {new, [kind |-> old.kind, data |-> new.data], [kind |-> new.kind, data |-> old.data]}

OutputViews(t) ==
    {output} \cup UNION {Torn(output, wr[u]) : u \in {x \in Threads \ {t} : pc[x] = "setOut"}}

\* globalLogger is a plain pointer. A read made while another goroutine is
\* at its store sees the old logger, the new one, or the new pointer ahead
\* of the stores that build the Logger behind it.
LoggerViews(t) ==
    {globalLogger}
        \cup UNION {{nl[u], Unbuilt} : u \in {x \in Threads \ {t} : pc[x] = "gWrite"}}

\* The first position of an option's body.
Entry(o) ==
    CASE o.op \in {"json", "text"} -> "hStore"
      [] o.op = "out" -> "lock"
      [] o.op = "lvl" -> "lvlSet"

\* A later WithOutput call ends the standing of the last returned one.
StartOut(o) == IF o.op = "out" THEN "none" ELSE validOut

OtherOutRunning(t) == \E u \in Threads \ {t} : pc[u] # "idle" /\ cur[u].op = "out"

\* ------------------------------------------------------------------ calls

\* A goroutine calls one option directly: WithXxx(...)().
CallOption(t, Opts, rec) ==
    /\ ~crashed
    /\ pc[t] = "idle"
    /\ calls < MaxCalls
    /\ \E o \in Opts :
        /\ cur' = [cur EXCEPT ![t] = o]
        /\ pc' = [pc EXCEPT ![t] = Entry(o)]
        /\ validOut' = StartOut(o)
        /\ given' = IF rec THEN Append(given, <<o>>) ELSE given
    /\ calls' = calls + 1
    /\ UNCHANGED <<shared, locals, queue, eOut, aside>>

\* NextOption ranging over the options from the last one.
NextOptionLast(os) == os[Len(os)]

\* The option Configure's loop applies next, and the ones after it.
NextOption(os) == Head(os)

RestOptions(os) == Tail(os)

\* A goroutine calls Configure(options...) with at least one option; the
\* loop calls the first. Configure() with no option does nothing.
CallConfigure(t, Opts, rec) ==
    /\ ~crashed
    /\ pc[t] = "idle"
    /\ \E n \in 1..MaxCfgLen :
        /\ calls + n <= MaxCalls
        /\ \E os \in [1..n -> Opts] :
            /\ cur' = [cur EXCEPT ![t] = NextOption(os)]
            /\ queue' = [queue EXCEPT ![t] = RestOptions(os)]
            /\ pc' = [pc EXCEPT ![t] = Entry(NextOption(os))]
            /\ validOut' = StartOut(NextOption(os))
            /\ given' = IF rec THEN Append(given, os) ELSE given
        /\ calls' = calls + n
    /\ UNCHANGED <<shared, locals, eOut, aside>>

\* An option returns: to Configure's loop, which calls the next option, or
\* to the caller.
Return(t) ==
    /\ ~crashed
    /\ pc[t] = "ret"
    /\ IF queue[t] = <<>>
       THEN /\ pc' = [pc EXCEPT ![t] = "idle"]
            /\ cur' = [cur EXCEPT ![t] = NoOption]
            /\ UNCHANGED queue
       ELSE /\ cur' = [cur EXCEPT ![t] = NextOption(queue[t])]
            /\ queue' = [queue EXCEPT ![t] = RestOptions(queue[t])]
            /\ pc' = [pc EXCEPT ![t] = Entry(NextOption(queue[t]))]
    /\ validOut' =
        IF queue[t] # <<>> /\ NextOption(queue[t]).op = "out"
        THEN "none"
        ELSE IF cur[t].op = "out"
             THEN IF cur[t].w \in OpenWriters /\ ~OtherOutRunning(t)
                  THEN cur[t].w.data
                  ELSE "none"
             ELSE validOut
    /\ out' = [out EXCEPT ![t] = NilWriter]
    /\ lv' = [lv EXCEPT ![t] = 0]
    /\ wr' = [wr EXCEPT ![t] = NilWriter]
    /\ nl' = [nl EXCEPT ![t] = NoLogger]
    /\ UNCHANGED <<shared, sDefer, lg, calls, eOut, given, aside>>

\* ------------------------------------- WithJSONFormat and WithTextFormat

\* handler.Store(0) or handler.Store(1).
HandlerStore(t) ==
    /\ ~crashed
    /\ pc[t] = "hStore"
    /\ handler' = FormatOf(cur[t])
    /\ pc' = [pc EXCEPT ![t] = "argOut"]
    /\ UNCHANGED <<logLevel, output, mtx, globalLogger, sink, crashed, cur, queue,
                   locals, calls, validOut, eOut, given, aside>>

\* ------------------------------------------------------------- WithOutput

\* OutLock without the wait for the mutex.
OutLockNoWait(t) ==
    /\ ~crashed
    /\ pc[t] = "lock"
    /\ mtx' = TRUE
    /\ wr' = [wr EXCEPT ![t] = OutputFor(cur[t].w)]
    /\ pc' = [pc EXCEPT ![t] = "setOut"]
    /\ UNCHANGED <<logLevel, output, handler, globalLogger, sink, crashed, cur, queue,
                   out, lv, nl, sDefer, lg, calls, validOut, eOut, given, aside>>

\* mtx.Lock() with its deferred mtx.Unlock(), and the test of out that
\* chooses the value to store.
OutLock(t) ==
    /\ ~crashed
    /\ pc[t] = "lock"
    /\ ~mtx
    /\ mtx' = TRUE
    /\ wr' = [wr EXCEPT ![t] = OutputFor(cur[t].w)]
    /\ pc' = [pc EXCEPT ![t] = "setOut"]
    /\ UNCHANGED <<logLevel, output, handler, globalLogger, sink, crashed, cur, queue,
                   out, lv, nl, sDefer, lg, calls, validOut, eOut, given, aside>>

\* output = out, or output = os.Stdout.
OutStore(t) ==
    /\ ~crashed
    /\ pc[t] = "setOut"
    /\ output' = wr[t]
    /\ pc' = [pc EXCEPT ![t] = "argOut"]
    /\ UNCHANGED <<logLevel, handler, mtx, globalLogger, sink, crashed, cur, queue,
                   locals, calls, validOut, eOut, given, aside>>

\* ----------------------------------------------------------- WithLogLevel

\* SetLevel followed by storeLogger(output, logLevel.Level()), as the
\* format options end.
SetLevelRebuild(t) ==
    /\ ~crashed
    /\ pc[t] = "lvlSet"
    /\ logLevel' = LevelFor(cur[t].s)
    /\ pc' = [pc EXCEPT ![t] = "argOut"]
    /\ UNCHANGED <<output, handler, mtx, globalLogger, sink, crashed, cur, queue,
                   locals, calls, validOut, eOut, given, aside>>

\* SetLevel between mtx.Lock() and mtx.Unlock().
SetLevelLocked(t) ==
    /\ ~crashed
    /\ pc[t] = "lvlSet"
    /\ ~mtx
    /\ logLevel' = LevelFor(cur[t].s)
    /\ pc' = [pc EXCEPT ![t] = "ret"]
    /\ UNCHANGED <<output, handler, mtx, globalLogger, sink, crashed, cur, queue,
                   locals, calls, validOut, eOut, given, aside>>

\* logLevel.Set(logLevelMap[level]).
SetLevel(t) ==
    /\ ~crashed
    /\ pc[t] = "lvlSet"
    /\ logLevel' = LevelFor(cur[t].s)
    /\ pc' = [pc EXCEPT ![t] = "ret"]
    /\ UNCHANGED <<output, handler, mtx, globalLogger, sink, crashed, cur, queue,
                   locals, calls, validOut, eOut, given, aside>>

\* ------------------------------------- storeLogger(output, logLevel.Level())

\* The first argument: the caller reads output.
ArgOutput(t) ==
    /\ ~crashed
    /\ pc[t] = "argOut"
    /\ \E v \in OutputViews(t) : out' = [out EXCEPT ![t] = v]
    /\ pc' = [pc EXCEPT ![t] = "argLvl"]
    /\ UNCHANGED <<shared, cur, queue, lv, wr, nl, sDefer, lg, calls,
                   validOut, eOut, given, aside>>

\* The second argument: logLevel.Level().
ArgLevel(t) ==
    /\ ~crashed
    /\ pc[t] = "argLvl"
    /\ lv' = [lv EXCEPT ![t] = logLevel]
    /\ pc' = [pc EXCEPT ![t] = "tryLock"]
    /\ UNCHANGED <<shared, cur, queue, out, wr, nl, sDefer, lg, calls,
                   validOut, eOut, given, aside>>

\* Whether storeLogger's mtx.TryLock() takes the mutex.
TryLockTakes == ~mtx

\* TryLock as mtx.Lock(): storeLogger waits for the mutex.
TryLockWaits(t) ==
    /\ ~crashed
    /\ pc[t] = "tryLock"
    /\ ~mtx
    /\ mtx' = TRUE
    /\ sDefer' = [sDefer EXCEPT ![t] = TRUE]
    /\ pc' = [pc EXCEPT ![t] = "hLoad"]
    /\ UNCHANGED <<logLevel, output, handler, globalLogger, sink, crashed, cur, queue,
                   out, lv, wr, nl, lg, calls, validOut, eOut, given, aside>>

\* TryLock with the Unlock deferred whether or not the mutex was taken.
TryLockDefers(t) ==
    /\ ~crashed
    /\ pc[t] = "tryLock"
    /\ mtx' = TRUE
    /\ sDefer' = [sDefer EXCEPT ![t] = TRUE]
    /\ pc' = [pc EXCEPT ![t] = "hLoad"]
    /\ UNCHANGED <<logLevel, output, handler, globalLogger, sink, crashed, cur, queue,
                   out, lv, wr, nl, lg, calls, validOut, eOut, given, aside>>

\* if mtx.TryLock() { defer mtx.Unlock() }.
TryLock(t) ==
    /\ ~crashed
    /\ pc[t] = "tryLock"
    /\ IF TryLockTakes
       THEN /\ mtx' = TRUE
            /\ sDefer' = [sDefer EXCEPT ![t] = TRUE]
       ELSE UNCHANGED <<mtx, sDefer>>
    /\ pc' = [pc EXCEPT ![t] = "hLoad"]
    /\ UNCHANGED <<logLevel, output, handler, globalLogger, sink, crashed, cur, queue,
                   out, lv, wr, nl, lg, calls, validOut, eOut, given, aside>>

\* if handler.Load() == 0: the JSON branch builds its logger from out.
HandlerLoad(t) ==
    /\ ~crashed
    /\ pc[t] = "hLoad"
    /\ IF handler = 0
       THEN /\ nl' = [nl EXCEPT ![t] = NewJSON(out[t], lv[t])]
            /\ pc' = [pc EXCEPT ![t] = "gWrite"]
       ELSE /\ pc' = [pc EXCEPT ![t] = "rdOut"]
            /\ UNCHANGED nl
    /\ UNCHANGED <<shared, cur, queue, out, lv, wr, sDefer, lg, calls,
                   validOut, eOut, given, aside>>

\* The text branch reads the package variable output and builds its logger.
TextBuild(t) ==
    /\ ~crashed
    /\ pc[t] = "rdOut"
    /\ \E v \in OutputViews(t) : nl' = [nl EXCEPT ![t] = NewText(v, lv[t])]
    /\ pc' = [pc EXCEPT ![t] = "gWrite"]
    /\ UNCHANGED <<shared, cur, queue, out, lv, wr, sDefer, lg, calls,
                   validOut, eOut, given, aside>>

\* Where a goroutine goes when storeLogger's body is done: storeLogger's
\* deferred unlock, or back in the option, to WithOutput's deferred unlock
\* or the option's return.
AfterStore(t) ==
    IF sDefer[t] THEN "sUnlock" ELSE IF cur[t].op = "out" THEN "oUnlock" ELSE "ret"

\* globalLogger = slog.New(...).
LoggerStore(t) ==
    /\ ~crashed
    /\ pc[t] = "gWrite"
    /\ globalLogger' = nl[t]
    /\ pc' = [pc EXCEPT ![t] = AfterStore(t)]
    /\ UNCHANGED <<logLevel, output, handler, mtx, sink, crashed, cur, queue,
                   locals, calls, validOut, eOut, given, aside>>

\* storeLogger's deferred mtx.Unlock(); unlocking an unlocked mutex is fatal.
StoreUnlock(t) ==
    /\ ~crashed
    /\ pc[t] = "sUnlock"
    /\ mtx' = FALSE
    /\ crashed' = ~mtx
    /\ sDefer' = [sDefer EXCEPT ![t] = FALSE]
    /\ pc' = [pc EXCEPT ![t] = IF cur[t].op = "out" THEN "oUnlock" ELSE "ret"]
    /\ UNCHANGED <<logLevel, output, handler, globalLogger, sink, cur, queue,
                   out, lv, wr, nl, lg, calls, validOut, eOut, given, aside>>

\* WithOutput's deferred mtx.Unlock().
OutUnlock(t) ==
    /\ ~crashed
    /\ pc[t] = "oUnlock"
    /\ mtx' = FALSE
    /\ crashed' = ~mtx
    /\ pc' = [pc EXCEPT ![t] = "ret"]
    /\ UNCHANGED <<logLevel, output, handler, globalLogger, sink, cur, queue,
                   locals, calls, validOut, eOut, given, aside>>

\* ------------------------------------------------- Debug, Info, Warn, Error

\* A goroutine calls Debug, Info, Warn or Error, which reads globalLogger.
EmitRead(t) ==
    /\ ~crashed
    /\ pc[t] = "idle"
    /\ calls < MaxCalls
    /\ \E level \in Levels, m \in Msgs :
        cur' = [cur EXCEPT ![t] = Option("emit", NilWriter, m, level)]
    /\ \E l \in LoggerViews(t) : lg' = [lg EXCEPT ![t] = l]
    /\ eOut' = [eOut EXCEPT ![t] = validOut]
    /\ pc' = [pc EXCEPT ![t] = "eHandle"]
    /\ calls' = calls + 1
    /\ UNCHANGED <<shared, queue, out, lv, wr, nl, sDefer, validOut, given, aside>>

\* Rendered with the format read from handler when the record is written.
RenderedLive(l, o) == [h |-> handler, level |-> o.n, msg |-> o.s]

\* The record a handler writes: its format, the record's level and message.
Rendered(l, o) == [h |-> l.h, level |-> o.n, msg |-> o.s]

\* Whether the logger l lets a record of level n through; a logger whose
\* handler reads nil lets nothing through, it panics.
Passes(l, n) == l.built /\ Enabled(l, n)

\* The logger handles the call: a record at or above its threshold is
\* rendered and written to its writer; a nil handler, or a writer that is
\* no open file, panics.
EmitHandle(t) ==
    /\ ~crashed
    /\ pc[t] = "eHandle"
    /\ LET l == lg[t]
           writes == Passes(l, cur[t].n) /\ l.w \in OpenWriters
       IN /\ crashed' = (~l.built \/ (Passes(l, cur[t].n) /\ ~writes))
          /\ sink' = IF writes
                     THEN [sink EXCEPT ![l.w.data] = Append(@, Rendered(l, cur[t]))]
                     ELSE sink
    /\ pc' = [pc EXCEPT ![t] = "idle"]
    /\ cur' = [cur EXCEPT ![t] = NoOption]
    /\ lg' = [lg EXCEPT ![t] = NoLogger]
    /\ eOut' = [eOut EXCEPT ![t] = "none"]
    /\ UNCHANGED <<logLevel, output, handler, mtx, globalLogger, queue, out,
                   lv, wr, nl, sDefer, calls, validOut, given, aside>>

\* ------------------------------------------------------------- CopyLogger

\* lg := CopyLogger(): the logger installed in globalLogger, by reference.
CopyLogger(t) ==
    /\ ~crashed
    /\ pc[t] = "idle"
    /\ calls < MaxCalls
    /\ copy' = globalLogger
    /\ copyAt' = Bound(globalLogger.h, globalLogger.w, Threshold(globalLogger))
    /\ calls' = calls + 1
    /\ UNCHANGED <<shared, locals, pc, cur, queue, validOut, eOut, given,
                   argv, rest, attrs, gin, conv>>

\* lg.Debug, lg.Info, lg.Warn or lg.Error on the logger CopyLogger returned:
\* the call the emit functions make, on that logger.
CopyEmit(t) ==
    /\ ~crashed
    /\ pc[t] = "idle"
    /\ calls < MaxCalls
    /\ copy # NoLogger
    /\ \E level \in Levels, m \in Msgs :
        cur' = [cur EXCEPT ![t] = Option("cemit", NilWriter, m, level)]
    /\ lg' = [lg EXCEPT ![t] = copy]
    /\ pc' = [pc EXCEPT ![t] = "eHandle"]
    /\ calls' = calls + 1
    /\ UNCHANGED <<shared, queue, out, lv, wr, nl, sDefer, validOut, eOut, given, aside>>

\* ------------------------------------------- the attributes of a record

\* The key of a value that has no key of its own.
badKey == "!BADKEY"

\* An argument is a slog.Attr (its key and its value), a string, or a
\* value of another type.
Attr(k, x) == [t |-> "attr", key |-> k, val |-> x]

Str(x) == [t |-> "str", key |-> "", val |-> x]

Val(x) == [t |-> "val", key |-> "", val |-> x]

\* An attribute of the record: a key and the value under it.
KV(k, v) == [key |-> k, val |-> v]

\* The attribute a slog.Attr argument is.
Kept(a) == KV(a.key, Val(a.val))

\* The arguments the emit calls are given.
Items == {Attr("a", "1"), Str("k"), Str("lonely"), Val("7")}

ArgLists == UNION {[1..n -> Items] : n \in 0..MaxArgs}

\* argsToAttr taking every string for a value without a key.
argsToAttrNoKeys(args) ==
    IF args[1].t = "attr"
    THEN [attr |-> Kept(args[1]), rest |-> Tail(args)]
    ELSE [attr |-> KV(badKey, args[1]), rest |-> Tail(args)]

\* The attribute the first arguments of args make, and the arguments left.
argsToAttr(args) ==
    IF args[1].t = "str"
    THEN IF Len(args) = 1
         THEN [attr |-> KV(badKey, args[1]), rest |-> <<>>]
         ELSE [attr |-> KV(args[1].val, args[2]), rest |-> SubSeq(args, 3, Len(args))]
    ELSE IF args[1].t = "attr"
         THEN [attr |-> Kept(args[1]), rest |-> Tail(args)]
         ELSE [attr |-> KV(badKey, args[1]), rest |-> Tail(args)]

\* One turn of the loop that adds the arguments to the record.
AddAttr ==
    /\ rest # <<>>
    /\ attrs' = Append(attrs, argsToAttr(rest).attr)
    /\ rest' = argsToAttr(rest).rest
    /\ UNCHANGED <<shared, locals, pc, cur, queue, calls, validOut, eOut, given,
                   copy, copyAt, argv, gin, conv>>

\* -------------------------------------------------------------- GinFactory

\* The argument lists the factory's methods are called with: middleware
\* functions m1 and m2, route registration functions h1 and h2.
MiddlewareArgs == {<<>>, <<"m1">>, <<"m2", "m1">>}

HandlerArgs == {<<>>, <<"h1">>, <<"h2", "h1">>}

GinCall(op, as) == [op |-> op, args |-> as]

\* What no method of the factory touches.
logger == <<shared, locals, pc, cur, queue, validOut, eOut, given, copy, copyAt,
            argv, rest, attrs, conv>>

\* append with the new elements put first.
prepend(old, new) == new \o old

\* append(g.middleware, middleware...), append(g.handlers, handlers...).
append(old, new) == old \o new

\* g.AddMiddleware(middleware...).
AddMiddleware ==
    /\ calls < MaxCalls
    /\ \E ms \in MiddlewareArgs :
        /\ middleware' = append(middleware, ms)
        /\ ghist' = Append(ghist, GinCall("AddMiddleware", ms))
    /\ calls' = calls + 1
    /\ UNCHANGED <<logger, handlers, router>>

\* ResetMiddleware assigning its arguments to the list.
ResetMiddlewareReplaces ==
    /\ calls < MaxCalls
    /\ \E ms \in MiddlewareArgs :
        /\ middleware' = ms
        /\ ghist' = Append(ghist, GinCall("ResetMiddleware", ms))
    /\ calls' = calls + 1
    /\ UNCHANGED <<logger, handlers, router>>

\* g.ResetMiddleware(middleware...).
ResetMiddleware ==
    /\ calls < MaxCalls
    /\ \E ms \in MiddlewareArgs :
        /\ middleware' = append(middleware, ms)
        /\ ghist' = Append(ghist, GinCall("ResetMiddleware", ms))
    /\ calls' = calls + 1
    /\ UNCHANGED <<logger, handlers, router>>

\* g.AddHandlers(handlers...).
AddHandlers ==
    /\ calls < MaxCalls
    /\ \E hs \in HandlerArgs :
        /\ handlers' = append(handlers, hs)
        /\ ghist' = Append(ghist, GinCall("AddHandlers", hs))
    /\ calls' = calls + 1
    /\ UNCHANGED <<logger, middleware, router>>

\* router.Use(m) for every m of ms, in range order.
RECURSIVE UseAll(_, _)
UseAll(r, ms) ==
    IF ms = <<>> THEN r ELSE UseAll([r EXCEPT !.mw = Append(@, Head(ms))], Tail(ms))

\* h(router) for every h of hs, in range order.
RECURSIVE RunAll(_, _)
RunAll(r, hs) ==
    IF hs = <<>> THEN r ELSE RunAll([r EXCEPT !.ran = Append(@, Head(hs))], Tail(hs))

\* g.CreateRouter(): gin.New(), the middleware, then the handlers.
CreateRouter ==
    /\ calls < MaxCalls
    /\ router' = RunAll(UseAll(Router(<<>>, <<>>), middleware), handlers)
    /\ ghist' = Append(ghist, GinCall("CreateRouter", <<>>))
    /\ calls' = calls + 1
    /\ UNCHANGED <<logger, middleware, handlers>>

\* ---------------------------------------------------------- package conv

\* The bytes of a string or slice: what memory holds now where it points.
Content(m, h) == [i \in 1..h.len |-> m[h.base][h.off + i]]

\* What is left alone by the conversions.
unconverted == <<shared, locals, pc, cur, queue, calls, validOut, eOut, given,
                 copy, copyAt, argv, rest, attrs, gin>>

\* StrToBytes pointing at the start of the array s lies in.
StrToBytesFromBase(m, s) == [h |-> Header("bytes", s.base, 0, s.len), mem |-> m]

\* unsafe.Slice(unsafe.StringData(s), len(s)): the slice header made of
\* the string's pointer and length; memory is not touched.
StrToBytes(m, s) == [h |-> Header("bytes", s.base, s.off, s.len), mem |-> m]

\* BytesToStr as string(b): the bytes are copied to a new array.
BytesToStrCopy(m, b) ==
    [h |-> Header("str", "new", 0, b.len), mem |-> [m EXCEPT !["new"] = Content(m, b)]]

\* unsafe.String(unsafe.SliceData(b), len(b)): the string header made of
\* the slice's pointer and length; memory is not touched.
BytesToStr(m, b) == [h |-> Header("str", b.base, b.off, b.len), mem |-> m]

\* The conversion that takes a value of h's type.
Convert(m, h) == IF h.kind = "str" THEN StrToBytes(m, h) ELSE BytesToStr(m, h)

\* b := StrToBytes(s) or s := BytesToStr(b) on the caller's value.
ConvertFirst ==
    /\ src.made
    /\ ~first.made
    /\ first' = Convert(mem, src).h
    /\ mem' = Convert(mem, src).mem
    /\ orig' = Content(mem, src)
    /\ UNCHANGED <<unconverted, src, second>>

\* The other conversion on the result of the first.
ConvertBack ==
    /\ first.made
    /\ ~second.made
    /\ second' = Convert(mem, first).h
    /\ mem' = Convert(mem, first).mem
    /\ UNCHANGED <<unconverted, src, first, orig>>

\* b[i] = v on the caller's byte slice after BytesToStr(b).
WriteByte ==
    /\ src.kind = "bytes"
    /\ first.made
    /\ \E i \in 1..src.len, v \in Bytes :
        mem' = [mem EXCEPT ![src.base][src.off + i] = v]
    /\ UNCHANGED <<unconverted, src, first, second, orig>>

\* --------------------------------------------------------- specifications

\* A step of goroutine t inside a configuration option.
ConfigStep(t) ==
    \/ Return(t)
    \/ HandlerStore(t)
    \/ OutLock(t)
    \/ OutStore(t)
    \/ SetLevel(t)
    \/ ArgOutput(t)
    \/ ArgLevel(t)
    \/ TryLock(t)
    \/ HandlerLoad(t)
    \/ TextBuild(t)
    \/ LoggerStore(t)
    \/ StoreUnlock(t)
    \/ OutUnlock(t)

Next ==
    \E t \in Threads :
        \/ CallOption(t, ConcOpts, FALSE)
        \/ CallConfigure(t, ConcOpts, FALSE)
        \/ EmitRead(t)
        \/ EmitHandle(t)
        \/ ConfigStep(t)

\* Any number of goroutines configure and emit concurrently.
Spec == Init /\ [][Next]_vars

SeqNext ==
    \E t \in {"t1"} :
        \/ CallOption(t, ConcOpts, TRUE)
        \/ CallConfigure(t, ConcOpts, TRUE)
        \/ EmitRead(t)
        \/ EmitHandle(t)
        \/ ConfigStep(t)

\* One goroutine configures and emits; its calls are recorded in given.
SpecSeq == Init /\ [][SeqNext]_vars

ArgNext ==
    \E t \in {"t1"} :
        \/ CallOption(t, ConfigOpts, FALSE)
        \/ ConfigStep(t)

\* One goroutine calls the options one by one, with every argument.
SpecArgs == Init /\ [][ArgNext]_vars

\* The options the goroutines of the fair specification call with: one
\* that locks mtx, one that tries to, one that does neither.
FairOpts == {OptText, OptOut(D1), OptLvl("info")}

CfgNext ==
    \E t \in Threads :
        \/ CallOption(t, FairOpts, FALSE)
        \/ CallConfigure(t, FairOpts, FALSE)
        \/ ConfigStep(t)

\* Goroutines configure concurrently. A goroutine inside an option keeps
\* running, and sync.Mutex hands the mutex to a goroutine that keeps
\* waiting in Lock (its starvation mode).
FairSpec ==
    /\ Init
    /\ [][CfgNext]_vars
    /\ \A t \in Threads : WF_vars(ConfigStep(t)) /\ SF_vars(OutLock(t))

\* The options the goroutine of the copying specification calls with.
CopyOpts == FormatOpts \cup {OptOut(D1), OptLvl("debug"), OptLvl("info")}

CopyNext ==
    \E t \in {"t1"} :
        \/ CallOption(t, CopyOpts, FALSE)
        \/ CallConfigure(t, CopyOpts, FALSE)
        \/ CopyLogger(t)
        \/ CopyEmit(t)
        \/ EmitRead(t)
        \/ EmitHandle(t)
        \/ ConfigStep(t)

\* One goroutine configures, copies the logger and emits through the copy
\* and through the emit functions.
SpecCopy == Init /\ [][CopyNext]_vars

\* An emit call with any argument list builds its record.
InitRecord ==
    /\ InitLog
    /\ NewGinFactory
    /\ NoConv
    /\ argv \in ArgLists
    /\ rest = argv
    /\ attrs = <<>>

SpecRecord == InitRecord /\ [][AddAttr]_vars

GinNext == AddMiddleware \/ ResetMiddleware \/ AddHandlers \/ CreateRouter

\* Calls on one new GinFactory, one after the other.
SpecGin == Init /\ [][GinNext]_vars

\* The arrays of up to MaxLen bytes.
Arrays == UNION {[1..n -> Bytes] : n \in 0..MaxLen}

\* A caller holds a string or a byte slice lying anywhere in an array.
InitConv ==
    /\ InitLog
    /\ NewGinFactory
    /\ argv = <<>>
    /\ rest = <<>>
    /\ attrs = <<>>
    /\ \E a \in Arrays : mem = [x \in Addrs |-> IF x = "a" THEN a ELSE <<>>]
    /\ \E kind \in {"str", "bytes"}, off \in 0..MaxLen, len \in 0..MaxLen :
        /\ off + len <= Len(mem["a"])
        /\ src = Header(kind, "a", off, len)
    /\ first = NoData
    /\ second = NoData
    /\ orig = <<>>

ConvNext == ConvertFirst \/ ConvertBack \/ WriteByte

SpecConv == InitConv /\ [][ConvNext]_vars

\* The arguments the goroutines that only call WithOutput call it with.
OutOpts == {OptOut(D1), OptOut(D2), OptOut(NilWriter), OptOut(NilFuncWriter)}

\* A step of goroutine t inside WithOutput; handler is 0, so storeLogger
\* takes its JSON branch, and its TryLock finds mtx held by its caller.
OutStep(t) ==
    \/ Return(t)
    \/ OutLock(t)
    \/ OutStore(t)
    \/ ArgOutput(t)
    \/ ArgLevel(t)
    \/ TryLock(t)
    \/ HandlerLoad(t)
    \/ LoggerStore(t)
    \/ OutUnlock(t)

OutNext ==
    \E t \in Threads :
        \/ CallOption(t, OutOpts, FALSE)
        \/ CallConfigure(t, OutOpts, FALSE)
        \/ OutStep(t)

\* Goroutines call only WithOutput, concurrently.
SpecOut == Init /\ [][OutNext]_vars

\* ------------------------------------------------------------------ claims

\* No configuration option is in progress on another goroutine, and the
\* logger goroutine t read is the installed one.
Quiet(t) == lg[t] = globalLogger /\ \A u \in Threads \ {t} : pc[u] = "idle"

\* C1: once the configuration options called so far have completed, an emit
\* call writes a record if and only if its level is at or above the level
\* logLevel holds (for a logger bound to an open writer).
C1_EmitFollowsGate ==
    [][\A t \in Threads :
        (EmitHandle(t) /\ Quiet(t) /\ lg[t].built /\ lg[t].w \in OpenWriters)
            => ((sink' # sink) <=> (cur[t].n >= logLevel))]_vars

\* The level the claim gives for a name.
ClaimedLevel(name) ==
    CASE name = "debug" -> LevelDebug
      [] name = "info" -> LevelInfo
      [] name = "error" -> LevelError
      [] OTHER -> LevelWarn

\* C2: WithLogLevel(s)() leaves logLevel at the level named by s, at Warn
\* for every s that is not one of the four names, whatever it held before;
\* it signals no error and logLevel always holds one of the four levels.
C2_LevelSet ==
    /\ [](logLevel \in Levels)
    /\ [][\A t \in Threads :
            SetLevel(t) => (logLevel' = ClaimedLevel(cur[t].s) /\ ~crashed')]_vars

\* WithLogLevel("trace") has set Warn over the Debug that an earlier
\* WithLogLevel("debug") set and a rebuild captured.
C2_Witness ==
    \E t \in Threads :
        /\ pc[t] = "ret"
        /\ cur[t] = OptLvl("trace")
        /\ logLevel = LevelWarn
        /\ globalLogger.level = LevelVal(LevelDebug)

\* C3: while the last returned WithOutput(D) stands (no later WithOutput
\* call), every emit call that uses the installed logger and whose record
\* passes the level filter appends that record to D.
C3_EmitGoesToOutput ==
    [][\A t \in Threads :
        (EmitHandle(t) /\ eOut[t] # "none" /\ eOut[t] = validOut
                       /\ lg[t] = globalLogger /\ Passes(lg[t], cur[t].n))
            => sink'[validOut] = Append(sink[validOut], Rendered(lg[t], cur[t]))]_vars

\* The destination the claim gives for an argument of WithOutput.
ClaimedOutput(w) == IF w.data = "nil" THEN Stdout ELSE w

\* C4: once WithOutput(x) has stored output and installed its logger, both
\* are os.Stdout when x is nil or a nil value of any kind, x otherwise.
C4_OutputDefaulted ==
    \A t \in Threads :
        (pc[t] \in {"oUnlock", "ret"} /\ cur[t].op = "out")
            => (output = ClaimedOutput(cur[t].w)
                /\ globalLogger.w = ClaimedOutput(cur[t].w))

\* Goroutine t is inside storeLogger's body, from the load of handler to
\* the store of globalLogger.
InRebuild(t) == pc[t] \in {"hLoad", "rdOut", "gWrite"}

\* C5: no two goroutines are inside storeLogger's body at the same time.
C5_OneRebuildAtATime ==
    \A t, u \in Threads : (t # u /\ InRebuild(t)) => ~InRebuild(u)

\* C6: a read of globalLogger is an atomic load: it returns the logger the
\* cell holds, also while another goroutine is storing one.
C6_LoggerReadAtomic ==
    [][\A t \in Threads : EmitRead(t) => lg'[t] = globalLogger]_vars

\* C7: the cell always holds a built logger, and the logger an emit call
\* handles its record with is a built one, never one whose fields are not
\* all set.
C7_WholeLogger ==
    /\ globalLogger.built
    /\ \A t \in Threads : pc[t] = "eHandle" => lg[t].built

\* C8: a goroutine inside a configuration option returns from it.
C8_OptionsReturn ==
    \A t \in Threads : (pc[t] # "idle") ~> (pc[t] = "idle")

\* A goroutine waits in WithOutput's Lock while another is inside
\* storeLogger, called by WithOutput with the mutex held, after a TryLock
\* that did not take it.
C8_Witness ==
    \E t, u \in Threads :
        /\ pc[t] = "lock"
        /\ pc[u] = "hLoad" /\ cur[u].op = "out" /\ ~sDefer[u] /\ mtx

\* The configuration cells.
Config == [logLevel |-> logLevel, output |-> output, handler |-> handler,
           globalLogger |-> globalLogger]

InitConfig == [logLevel |-> LevelWarn, output |-> Stdout, handler |-> JSONFormat,
               globalLogger |-> Logger(JSONFormat, Stdout, LevelRef)]

\* What one option called alone, to its return, does to the cells.
After(c, o) ==
    CASE o.op = "json" ->
            [c EXCEPT !.handler = JSONFormat,
                      !.globalLogger = Logger(JSONFormat, c.output, LevelVal(c.logLevel))]
      [] o.op = "text" ->
            [c EXCEPT !.handler = TextFormat,
                      !.globalLogger = Logger(TextFormat, c.output, LevelVal(c.logLevel))]
      [] o.op = "out" ->
            [c EXCEPT !.output = OutputFor(o.w),
                      !.globalLogger = Logger(c.handler, OutputFor(o.w), LevelVal(c.logLevel))]
      [] o.op = "lvl" -> [c EXCEPT !.logLevel = LevelFor(o.s)]

\* What the options os called one after the other do to the cells.
RECURSIVE AfterAll(_, _)
AfterAll(c, os) == IF os = <<>> THEN c ELSE AfterAll(After(c, Head(os)), Tail(os))

\* The options of the calls cs, in call order.
RECURSIVE Flat(_)
Flat(cs) == IF cs = <<>> THEN <<>> ELSE Head(cs) \o Flat(Tail(cs))

Example == <<OptText, OptLvl("info"), OptOut(D1)>>

\* C9: when a goroutine's calls have returned, the cells are what calling
\* the options of those calls one after the other, in argument order,
\* makes them, whether an option was called directly or through Configure;
\* after Configure(WithTextFormat(), WithLogLevel("info"), WithOutput(D))
\* logLevel is Info and the logger is a text logger bound to D that lets
\* an Error record through.
C9_ConfigureInOrder ==
    (\A t \in Threads : pc[t] = "idle") =>
        /\ Config = AfterAll(InitConfig, Flat(given))
        /\ (given = <<Example>>) =>
            /\ logLevel = LevelInfo
            /\ globalLogger.h = TextFormat
            /\ globalLogger.w = D1
            /\ Passes(globalLogger, LevelError)

\* Configure(WithTextFormat(), WithLogLevel("info"), WithOutput(D)) has
\* returned.
C9_Witness ==
    /\ \A t \in Threads : pc[t] = "idle"
    /\ given = <<Example>>
    /\ globalLogger = Logger(TextFormat, D1, LevelVal(LevelInfo))

\* The format options among os.
Formats(os) == SelectSeq(os, LAMBDA o : o \in FormatOpts)

\* The format the claim gives for a format option.
ClaimedFormat(o) == IF o = OptText THEN TextFormat ELSE JSONFormat

Last(os) == os[Len(os)]

Front(os) == SubSeq(os, 1, Len(os) - 1)

\* C10: when a goroutine's calls have returned, handler and the installed
\* logger have the format of the last format option called; and a format
\* option called right after the same one leaves the cells as the first
\* call left them.
C10_LastFormatWins ==
    (\A t \in Threads : pc[t] = "idle") =>
        LET os == Flat(given)
            fs == Formats(os)
        IN /\ fs # <<>> =>
                /\ handler = ClaimedFormat(Last(fs))
                /\ globalLogger.h = ClaimedFormat(Last(fs))
           /\ (Len(os) >= 2 /\ Last(os) \in FormatOpts /\ Last(os) = Last(Front(os)))
                => Config = AfterAll(InitConfig, Front(os))

\* WithJSONFormat, WithTextFormat, WithTextFormat have been called, in one
\* Configure or one by one, and have returned.
C10_Witness ==
    /\ \A t \in Threads : pc[t] = "idle"
    /\ Flat(given) = <<OptJSON, OptText, OptText>>
    /\ handler = TextFormat
    /\ globalLogger.h = TextFormat

\* C11: a call on the logger CopyLogger returned writes its record if and
\* only if the record's level is at or above the threshold that logger
\* filtered with when it was returned, whatever WithLogLevel set since.
C11_CopyKeepsFilter ==
    [][\A t \in Threads :
        (EmitHandle(t) /\ cur[t].op = "cemit" /\ lg[t].w \in OpenWriters)
            => ((sink' # sink) <=> (cur[t].n >= copyAt.thr))]_vars

C13_LevelChangeReplaces ==
    [][\A t \in Threads :
        (SetLevel(t) /\ copy # NoLogger /\ logLevel' # logLevel)
            => globalLogger' # copy]_vars

C15_Defaults ==
    calls = 0 =>
        /\ logLevel = LevelWarn
        /\ handler = JSONFormat
        /\ output = Stdout
        /\ globalLogger.built /\ globalLogger.h = JSONFormat /\ globalLogger.w = Stdout
        /\ \A d \in DOMAIN sink : sink[d] = <<>>

\* The process has started and no call has been made; the installed logger
\* filters with logLevel itself and would not let a Debug record through.
C15_Witness ==
    /\ calls = 0
    /\ \A t \in Threads : pc[t] = "idle"
    /\ globalLogger.level = LevelRef
    /\ ~Passes(globalLogger, LevelDebug)
    /\ Passes(globalLogger, LevelWarn)

\* The record the default logger writes for an emit call.
DefaultRecord(o) == [h |-> JSONFormat, level |-> o.n, msg |-> o.s]

RECURSIVE ClaimedAttrs(_, _)
ClaimedAttrs(a, i) ==
    IF i > Len(a)
    THEN <<>>
    ELSE IF a[i].t = "attr"
         THEN <<[key |-> a[i].key, val |-> [t |-> "val", key |-> "", val |-> a[i].val]]>>
                  \o ClaimedAttrs(a, i + 1)
         ELSE IF a[i].t = "str" /\ i < Len(a)
              THEN <<[key |-> a[i].val, val |-> a[i + 1]]>> \o ClaimedAttrs(a, i + 2)
              ELSE <<[key |-> "!BADKEY", val |-> a[i]]>> \o ClaimedAttrs(a, i + 1)

\* The arguments an attribute list stands for, in order: an attribute made
\* of a key string and the argument after it stands for both.
RECURSIVE Taken(_, _, _)
Taken(a, i, as) ==
    IF as = <<>>
    THEN <<>>
    ELSE IF i < Len(a) /\ a[i].t = "str" /\ Head(as) = [key |-> a[i].val, val |-> a[i + 1]]
         THEN <<a[i], a[i + 1]>> \o Taken(a, i + 2, Tail(as))
         ELSE <<a[i]>> \o Taken(a, i + 1, Tail(as))

\* C17: at every turn the attributes built are those the grammar gives for
\* the arguments taken so far, in call order, and they stand for exactly
\* those arguments, each once; when none is left the record has the
\* grammar's attributes for the whole list; ("k", "lonely", "lonely") gives
\* k = "lonely" and then !BADKEY = "lonely"; and every turn takes one or
\* two arguments, so the loop ends.
C17_AttrGrammar ==
    /\ [](LET done == Len(argv) - Len(rest)
          IN /\ rest = SubSeq(argv, done + 1, Len(argv))
             /\ attrs \o ClaimedAttrs(argv, done + 1) = ClaimedAttrs(argv, 1)
             /\ Taken(argv, 1, attrs) = SubSeq(argv, 1, done)
             /\ (rest = <<>> /\ argv = <<Str("k"), Str("lonely"), Str("lonely")>>)
                    => attrs = <<KV("k", Str("lonely")), KV("!BADKEY", Str("lonely"))>>)
    /\ [][AddAttr => Len(rest) - Len(rest') \in {1, 2}]_vars

\* An Attr followed by a key and its value has been turned into two
\* attributes in that order.
C17_Witness ==
    /\ argv = <<Attr("a", "1"), Str("k"), Val("7")>>
    /\ rest = <<>>
    /\ attrs = <<KV("a", Val("1")), KV("k", Val("7"))>>

\* C18: a goroutine about to set logLevel, to read globalLogger for an emit
\* call or to handle its record can take that step at once, whoever holds
\* mtx; and no step of WithLogLevel or of an emit call locks or unlocks mtx.
C18_NoWaitForLock ==
    /\ [](\A t \in Threads :
            ~crashed =>
                /\ (pc[t] = "lvlSet" => ENABLED SetLevel(t))
                /\ (pc[t] = "eHandle" => ENABLED EmitHandle(t))
                /\ (pc[t] = "idle" /\ calls < MaxCalls) => ENABLED EmitRead(t))
    /\ [][\A t \in Threads :
            (EmitRead(t) \/ (cur[t].op \in {"lvl", "emit"} /\ (ConfigStep(t) \/ EmitHandle(t))))
                => mtx' = mtx]_vars

\* While a goroutine holds mtx inside WithOutput, about to store output,
\* another has set logLevel in WithLogLevel, or has written a record.
C18_Witness ==
    \E t, u \in Threads :
        /\ pc[u] = "setOut" /\ mtx
        /\ \/ pc[t] = "ret" /\ cur[t].op = "lvl" /\ calls = 2
           \/ pc[t] = "idle" /\ calls = 2 /\ sink[Stdout.data] # <<>>

\* C19: ResetMiddleware(m1..mk) leaves the factory's middleware list
\* exactly [m1..mk], whatever it held before.
C19_ResetReplaces ==
    [][ResetMiddleware => middleware' = ghist'[Len(ghist')].args]_vars

\* The arguments of the calls of method op among cs, in call order.
RECURSIVE Added(_, _)
Added(cs, op) ==
    IF cs = <<>>
    THEN <<>>
    ELSE (IF Head(cs).op = op THEN Head(cs).args ELSE <<>>) \o Added(Tail(cs), op)

NoReset(cs) == \A i \in 1..Len(cs) : cs[i].op # "ResetMiddleware"

C21_ConvInverses ==
    /\ first.made =>
        /\ first.kind # src.kind
        /\ first.len = src.len
        /\ Content(mem, first) = Content(mem, src)
        /\ (src.len = 0 => Content(mem, first) = <<>>)
    /\ second.made =>
        /\ second.kind = src.kind
        /\ second.len = src.len
        /\ Content(mem, second) = Content(mem, src)

\* The string "mM", the last two bytes of a longer one, went to bytes and
\* back.
C21_Witness ==
    /\ src.kind = "str" /\ src.off > 0 /\ src.len > 0
    /\ second.made
    /\ Content(mem, second) = orig

\* C22: after s := BytesToStr(b), whatever is written to the elements of
\* b, the bytes of s are the bytes of b: a write to b[i] shows in s[i].
C22_StringSharesBytes ==
    /\ [](src.kind = "bytes" /\ first.made => Content(mem, first) = Content(mem, src))
    /\ [][WriteByte =>
            \A i \in 1..first.len :
                mem'[src.base][src.off + i] # mem[src.base][src.off + i]
                    => Content(mem', first)[i] = mem'[src.base][src.off + i]]_vars

\* b held "mm" when it was converted; b[0] = 'M' was written and the
\* string now reads "Mm".
C22_Witness ==
    /\ src.kind = "bytes"
    /\ first.made
    /\ orig = <<"m", "m">>
    /\ Content(mem, first) = <<"M", "m">>

\* No goroutine is inside a configuration option or an emit call, and the
\* process is alive.
AllIdle == ~crashed /\ \A t \in Threads : pc[t] = "idle"

\* C23: whenever no call is in progress, the installed logger's writer is
\* the value of output.
C23_LoggerBoundToOutput == AllIdle => globalLogger.w = output

\* C24: whenever no call is in progress, the installed logger's format is
\* the value of handler.
C24_LoggerFormatIsHandler == AllIdle => globalLogger.h = handler

\* Goroutine t is inside WithOutput between its Lock and its Unlock.
InOutput(t) ==
    cur[t].op = "out" /\ pc[t] \notin {"idle", "lock", "ret"}

\* C25: with only WithOutput called, no two goroutines are between Lock and
\* Unlock at once; a call reads back, builds with and releases the mutex on
\* the value it stored in output; output and globalLogger change only
\* inside such a call; so that with no call in progress the installed
\* logger is bound to output, the value stored by the call that locked last.
C25_OutputCallsSerialize ==
    /\ [](\A t, u \in Threads : (t # u /\ InOutput(t)) => ~InOutput(u))
    /\ [](\A t \in Threads : ~sDefer[t] /\ ~crashed)
    /\ [][\A t \in Threads :
            /\ ArgOutput(t) => out'[t] = wr[t]
            /\ LoggerStore(t) => globalLogger'.w = wr[t]
            /\ OutUnlock(t) => (output = wr[t] /\ globalLogger.w = wr[t]
                                 /\ wr[t] = OutputFor(cur[t].w))]_vars
    /\ [][(~mtx /\ ~mtx') => UNCHANGED <<output, globalLogger>>]_vars
    /\ [](AllIdle => globalLogger.w = output)

\* One goroutine has returned from WithOutput(D1); another, which waited in
\* Lock meanwhile, has since stored D2 and installed its logger, and is
\* about to unlock.
C25_Witness ==
    \E t, u \in Threads :
        /\ t # u
        /\ pc[t] = "idle" /\ calls = 2
        /\ pc[u] = "oUnlock" /\ cur[u] = OptOut(D2)
        /\ output = D2 /\ globalLogger.w = D2

\* Goroutine t has locked mtx and not yet unlocked it: in WithOutput after
\* Lock, or in storeLogger after a TryLock that took the mutex.
Holds(t) == InOutput(t) \/ sDefer[t]

\* C26: a goroutine that entered storeLogger from WithJSONFormat or
\* WithTextFormat is inside its body only while no other goroutine holds
\* mtx.
C26_GuardOnlyForOwnChain ==
    \A t \in Threads :
        (InRebuild(t) /\ cur[t].op \in {"json", "text"})
            => \A u \in Threads \ {t} : ~Holds(u)

\* C27: mtx is locked exactly when one goroutine holds it, and never two;
\* an Unlock is made by the goroutine holding it, on the locked mutex,
\* and ends its hold; a goroutine returning from an option holds nothing;
\* and mtx is free whenever no option is in progress.
C27_LockDiscipline ==
    /\ [](~crashed =>
            /\ mtx <=> \E t \in Threads : Holds(t)
            /\ \A t, u \in Threads : (Holds(t) /\ Holds(u)) => t = u
            /\ \A t \in Threads : pc[t] \in {"ret", "idle"} => ~Holds(t)
            /\ (\A t \in Threads : pc[t] \in {"idle", "eHandle"}) => ~mtx)
    /\ [][\A t \in Threads :
            (StoreUnlock(t) \/ OutUnlock(t))
                => (mtx /\ Holds(t) /\ ~mtx' /\ ~Holds(t)' /\ ~crashed')]_vars

\* A format option's storeLogger failed its TryLock on the mutex another
\* goroutine's WithOutput holds, ran without a deferred Unlock and is about
\* to return, while WithOutput is about to unlock.
C27_Witness ==
    \E t, u \in Threads :
        /\ pc[t] = "ret" /\ cur[t].op \in {"json", "text"}
        /\ pc[u] = "oUnlock" /\ mtx /\ ~sDefer[t]

\* C28: on one goroutine, a format option about to return has installed a
\* logger of its format bound to the value of output, and WithOutput one
\* of the format handler holds bound to the value it stored; no step of a
\* format option changes output or logLevel, and no step of WithOutput
\* changes handler or logLevel.
C28_OptionFrames ==
    /\ [](\A t \in Threads :
            pc[t] = "ret" =>
                /\ cur[t].op = "text" =>
                        (globalLogger.h = TextFormat /\ globalLogger.w = output)
                /\ cur[t].op = "json" =>
                        (globalLogger.h = JSONFormat /\ globalLogger.w = output)
                /\ cur[t].op = "out" =>
                        (globalLogger.h = handler /\ globalLogger.w = output
                         /\ output = OutputFor(cur[t].w)))
    /\ [][\A t \in Threads :
            ConfigStep(t) =>
                /\ cur[t].op \in {"json", "text"} => UNCHANGED <<output, logLevel>>
                /\ cur[t].op = "out" => UNCHANGED <<handler, logLevel>>]_vars

\* After WithOutput(D1), WithTextFormat is about to return: the installed
\* logger is a text logger bound to D1.
C28_Witness ==
    \E t \in Threads :
        /\ pc[t] = "ret" /\ cur[t] = OptText
        /\ output = D1
        /\ globalLogger.h = TextFormat /\ globalLogger.w = D1

\* s is the beginning of r.
IsPrefix(s, r) == Len(s) <= Len(r) /\ SubSeq(r, 1, Len(s)) = s

====
